---- MODULE Spec2Model ----
(***************************************************************************)
(* Model of the retrieval core of ai-study-assistant: the FAISS-backed     *)
(* VectorStore (rag/vectorstore.py, backend/rag/vectorstore.py), its       *)
(* persistence, and the course registry (rag/course_manager.py).           *)
(*                                                                         *)
(* SpecVS   : one caller driving one VectorStore object in memory.         *)
(* SpecDisk : one caller building, saving and loading a VectorStore.       *)
(* SpecIO   : threads running save / load on one location, step by step.   *)
(* SpecReg  : the course cache and load_course_store over the index files. *)
(* SpecCli  : runs of scripts/manage_index.py build and load.               *)
(* SpecQA   : answer_question over the course cache and the index files.    *)
(* SpecCache: the cache operations, one caller at a time.                   *)
(* SpecFrame: the operations that write the cache, one caller at a time.    *)
(* SpecE2E  : builds and questions, one caller at a time.                   *)
(* SpecReload: reloads and evictions, one caller at a time.                 *)
(* SpecLive : a question, one step per external call, with fairness.        *)
(* SpecPar  : concurrent reload requests, one step of the build at a time.  *)
(* SpecChunk: chunk_text, one window per step.                              *)
(* SpecFn   : the stateless functions applied to inputs drawn from small    *)
(*            sets.                                                         *)
(***************************************************************************)
EXTENDS Integers, Sequences, FiniteSets, TLC

VARIABLES
    vs,     \* the VectorStore object under test, or NoStore
    disk,   \* location (path prefix) -> the two artifacts <prefix>.index, <prefix>_texts.pkl
    ev,     \* the last completed call: its name, inputs and outcome
    cache,  \* SpecReg: _course_stores, upper-case course code -> VectorStore or NoStore
    pc,     \* SpecIO: thread -> position inside save / load
    loc     \* SpecIO: thread -> locals of the running call

vars == <<vs, disk, ev, cache, pc, loc>>

----------------------------------------------------------------------------
(* Bounds *)

MaxDim == 2        \* vector dimensions 1..MaxDim
MaxEntries == 2    \* cap on index.ntotal and on len(texts)
MaxBatch == 2      \* cap on the number of vectors / chunks in one add call
MaxTopK == 3       \* top_k ranges over 1..MaxTopK

Coord == {0, 1}
Chunk == {"p", "q"}

Min(a, b) == IF a <= b THEN a ELSE b

SeqsUpTo(S, n) == UNION {[1..k -> S] : k \in 0..n}

\* the vectors callers supply: every dimension in 1..MaxDim, all components
\* equal (as the embedder stub of test_integration.py produces them)
ConstVec(d, c) == [i \in 1..d |-> c]
Vec == {ConstVec(d, c) : d \in 1..MaxDim, c \in Coord}

\* embed_texts on one chunk: a fixed vector per text
Embed(d, c) == ConstVec(d, IF c = "p" THEN 0 ELSE 1)

----------------------------------------------------------------------------
(* faiss.IndexFlatL2: d, ntotal and the flat row-major array of components *)

NoStore == [kind |-> "none"]

IndexFlatL2(dim) == [d |-> dim, ntotal |-> 0, xb |-> <<>>]

\* row i (0-based) of the flat array
Row(index, i) == SubSeq(index.xb, i * index.d + 1, (i + 1) * index.d)

RECURSIVE Flatten(_)
Flatten(rows) ==
    IF rows = <<>> THEN <<>> ELSE Head(rows) \o Flatten(Tail(rows))

\* np.array(vectors): a list of rows of unequal length has no 2-D shape
Ragged(vectors) == \E i, j \in 1..Len(vectors) : Len(vectors[i]) # Len(vectors[j])

\* index.add(x) of the faiss python wrapper: n, d = x.shape; assert d == self.d
faiss_add(index, vectors) ==
    IF Ragged(vectors) THEN [ok |-> FALSE, err |-> "ValueError", index |-> index]
    ELSE IF vectors = <<>> THEN [ok |-> FALSE, err |-> "ValueError", index |-> index]
    ELSE IF Len(vectors[1]) # index.d
         THEN [ok |-> FALSE, err |-> "AssertionError", index |-> index]
    ELSE [ok |-> TRUE, err |-> "",
          index |-> [index EXCEPT !.ntotal = @ + Len(vectors),
                                  !.xb = @ \o Flatten(vectors)]]

RECURSIVE SumSq(_, _)
SumSq(a, b) ==
    IF a = <<>> THEN 0
    ELSE (Head(a) - Head(b)) * (Head(a) - Head(b)) + SumSq(Tail(a), Tail(b))

\* squared Euclidean distance of stored row i to the query
Dist(index, i, q) == SumSq(Row(index, i), q)

\* index.search(q, k): the k nearest labels, nearest first, padded with -1 when
\* fewer than k vectors are stored. Equal distances may come out in either order.
faiss_search(index, q, k) ==
    LET n == index.ntotal
        m == Min(k, n)
        orders == {f \in [1..m -> 0..(n - 1)] :
                     /\ \A i, j \in 1..m : i # j => f[i] # f[j]
                     /\ \A i, j \in 1..m : i < j => Dist(index, f[i], q) <= Dist(index, f[j], q)
                     /\ \A i \in 1..m : \A x \in 0..(n - 1) :
                           (\A j \in 1..m : f[j] # x) => Dist(index, f[i], q) <= Dist(index, x, q)}
    IN {[i \in 1..k |-> IF i <= m THEN f[i] ELSE -1] : f \in orders}

----------------------------------------------------------------------------
(* VectorStore *)

Store(index, texts) == [kind |-> "store", index |-> index, texts |-> texts]

\* VectorStore(dim): a fresh flat index of that dimension and no texts
VectorStore_init(dim) == Store(IndexFlatL2(dim), <<>>)

\* VectorStore.add: index.add(vectors), then texts.extend(chunks)
VectorStore_add(s, vectors, chunks) ==
    LET r == faiss_add(s.index, vectors)
    IN IF ~r.ok THEN [ok |-> FALSE, err |-> r.err, store |-> s]
       ELSE [ok |-> TRUE, err |-> "", store |-> Store(r.index, s.texts \o chunks)]

\* the comprehension of search: keeps label i when "i is not None and
\* i < len(texts)" and reads texts[i]; a negative i counts from the end of
\* the list, and texts[-1] of an empty list is an IndexError
RECURSIVE PickTexts(_, _)
PickTexts(texts, labels) ==
    IF labels = <<>> THEN [ok |-> TRUE, out |-> <<>>]
    ELSE LET i == Head(labels)
             rest == PickTexts(texts, Tail(labels))
         IN IF ~(i < Len(texts)) THEN rest
            ELSE IF i < 0 /\ Len(texts) + i < 0 THEN [ok |-> FALSE, out |-> <<>>]
            ELSE IF ~rest.ok THEN rest
            ELSE [ok |-> TRUE,
                  out |-> <<texts[(IF i < 0 THEN Len(texts) + i ELSE i) + 1]>> \o rest.out]


\* VectorStore.search(query_vector, top_k): every outcome the call can have
VectorStore_search(s, q, k) ==
    IF Len(q) # s.index.d
    THEN {[ok |-> FALSE, err |-> "AssertionError", labels |-> <<>>, out |-> <<>>]}
    ELSE {LET r == PickTexts(s.texts, labels)
          IN [ok |-> r.ok, err |-> IF r.ok THEN "" ELSE "IndexError",
              labels |-> labels, out |-> r.out] :
          labels \in faiss_search(s.index, q, k)}

----------------------------------------------------------------------------
(* Course codes and locations *)

\* course codes as callers spell them, and their two canonical forms
Ids == {"cs", "CS", "ma"}
upper(id) == IF id \in {"cs", "CS"} THEN "CS" ELSE "MA"
lower(id) == IF id \in {"cs", "CS"} THEN "cs" ELSE "ma"

\* get_course_index_path: INDEX_BASE_DIR joined with the lower-case code; a
\* location is named by what follows the base directory
get_course_index_path(id) == lower(id)

Locs == {get_course_index_path(id) : id \in Ids}

----------------------------------------------------------------------------
(* Persistence: <prefix>.index and <prefix>_texts.pkl *)

Absent == [st |-> "absent", data |-> <<>>, by |-> 0]
Partial(w) == [st |-> "partial", data |-> <<>>, by |-> w]
Full(bytes, w) == [st |-> "full", data |-> bytes, by |-> w]

NoFiles == [idx |-> Absent, txt |-> Absent]

\* faiss.write_index: header d, ntotal, then the flat array
write_index(index) == <<index.d, index.ntotal>> \o index.xb

\* faiss.read_index: the header, then ntotal * d components
read_index(bytes) ==
    [d |-> bytes[1], ntotal |-> bytes[2],
     xb |-> SubSeq(bytes, 3, 2 + bytes[1] * bytes[2])]

\* pickle.dump / pickle.load of a list: its length, then its items
pickle_dump(texts) == <<Len(texts)>> \o texts
pickle_load(bytes) == SubSeq(bytes, 2, 1 + bytes[1])

\* os.path.exists
exists(file) == file.st # "absent"

\* the two writes of save, each an open-for-write (truncate) and the write itself
OpenIndex(files, w) == [files EXCEPT !.idx = Partial(w)]
WriteIndex(files, s, w) == [files EXCEPT !.idx = Full(write_index(s.index), w)]
OpenTexts(files, w) == [files EXCEPT !.txt = Partial(w)]
\* a dump that leaves an existing texts file as it is
DumpTextsKeepOld(files, s, w) ==
    IF exists(files.txt) THEN files
    ELSE [files EXCEPT !.txt = Full(pickle_dump(s.texts), w)]

DumpTexts(files, s, w) == [files EXCEPT !.txt = Full(pickle_dump(s.texts), w)]

\* how far a save gets before the file system refuses
SaveFaults == {"none", "makedirs", "write_index", "open_texts", "dump"}

\* VectorStore.save(path_prefix) run to its end by caller w
VectorStore_save(s, files, fault, w) ==
    CASE fault = "makedirs" -> [ok |-> FALSE, files |-> files]
      [] fault = "write_index" -> [ok |-> FALSE, files |-> OpenIndex(files, w)]
      [] fault = "open_texts" -> [ok |-> FALSE, files |-> WriteIndex(files, s, w)]
      [] fault = "dump" ->
           [ok |-> FALSE, files |-> OpenTexts(WriteIndex(files, s, w), w)]
      [] OTHER -> [ok |-> TRUE, files |-> DumpTexts(WriteIndex(files, s, w), s, w)]

\* an existence test that looks at the index file alone
LoadMissingIndexOnly(files) == ~exists(files.idx)

\* the existence test that opens load
LoadMissing(files) == ~exists(files.idx) \/ ~exists(files.txt)

\* VectorStore.load(path_prefix): the existence test, faiss.read_index,
\* open and pickle.load, VectorStore(index=index, texts=texts)
VectorStore_load(files) ==
    IF LoadMissing(files)
    THEN [ok |-> FALSE, err |-> "FileNotFoundError", store |-> NoStore]
    ELSE IF files.idx.st # "full"
    THEN [ok |-> FALSE, err |-> "RuntimeError", store |-> NoStore]
    ELSE IF files.txt.st = "absent"
    THEN [ok |-> FALSE, err |-> "FileNotFoundError", store |-> NoStore]
    ELSE IF files.txt.st = "partial"
    THEN [ok |-> FALSE, err |-> "EOFError", store |-> NoStore]
    ELSE [ok |-> TRUE, err |-> "",
          store |-> Store(read_index(files.idx.data), pickle_load(files.txt.data))]

\* is_course_indexed(course_code)
is_course_indexed(d, id) ==
    LET files == d[get_course_index_path(id)]
    IN exists(files.idx) /\ exists(files.txt)

----------------------------------------------------------------------------
(* SpecVS: one caller, one VectorStore object in memory *)

NoEv == [op |-> "none"]

InitVS ==
    /\ vs = NoStore
    /\ disk = [p \in Locs |-> NoFiles]
    /\ ev = NoEv
    /\ cache = <<>>
    /\ pc = <<>>
    /\ loc = <<>>

Create ==
    /\ \E dim \in 1..MaxDim :
        /\ vs' = VectorStore_init(dim)
        /\ ev' = [op |-> "create", dim |-> dim]
    /\ UNCHANGED <<disk, cache, pc, loc>>

\* the arguments add is called with: what the build path passes (the chunks and
\* their embeddings), and batches of every shape (any number of vectors, of
\* any dimensions, against any number of chunks)
AddInputs(d) ==
    {<<[i \in 1..Len(cs) |-> Embed(d, cs[i])], cs>> : cs \in SeqsUpTo(Chunk, MaxBatch)}
    \cup {<<[i \in 1..Len(dims) |-> ConstVec(dims[i], 0)], [j \in 1..m |-> "p"]>> :
             dims \in SeqsUpTo(1..MaxDim, MaxBatch), m \in 0..MaxBatch}

Add ==
    /\ vs # NoStore
    /\ \E in \in AddInputs(vs.index.d) :
        LET vectors == in[1]
            chunks == in[2]
            r == VectorStore_add(vs, vectors, chunks)
        IN /\ r.store.index.ntotal <= MaxEntries
           /\ Len(r.store.texts) <= MaxEntries
           /\ vs' = r.store
           /\ ev' = [op |-> "add", ok |-> r.ok, err |-> r.err,
                     nvec |-> Len(vectors), nchunk |-> Len(chunks),
                     baddim |-> \E i \in 1..Len(vectors) : Len(vectors[i]) # vs.index.d]
    /\ UNCHANGED <<disk, cache, pc, loc>>

Search ==
    /\ vs # NoStore
    /\ \E q \in Vec, k \in 1..MaxTopK :
        \E r \in VectorStore_search(vs, q, k) :
            ev' = [op |-> "search", ok |-> r.ok, err |-> r.err, q |-> q,
                   k |-> k, labels |-> r.labels, out |-> r.out]
    /\ UNCHANGED <<vs, disk, cache, pc, loc>>

NextVS == Create \/ Add \/ Search

SpecVS == InitVS /\ [][NextVS]_vars

----------------------------------------------------------------------------
(* SpecDisk: one caller building, saving and loading a VectorStore *)

\* the build path's add: vectors = embed_texts(chunks); vs.add(vectors, chunks)
Put ==
    /\ vs # NoStore
    /\ vs.index.ntotal < MaxEntries
    /\ Len(vs.texts) < MaxEntries
    /\ \E c \in Chunk :
        LET r == VectorStore_add(vs, <<Embed(vs.index.d, c)>>, <<c>>)
        IN /\ vs' = r.store
           /\ ev' = [op |-> "put", ok |-> r.ok]
    /\ UNCHANGED <<disk, cache, pc, loc>>

\* the location the caller saves to and loads from
DiskLoc == "cs"

Save ==
    /\ vs # NoStore
    /\ \E fault \in SaveFaults :
        LET r == VectorStore_save(vs, disk[DiskLoc], fault, 0)
        IN /\ disk' = [disk EXCEPT ![DiskLoc] = r.files]
           /\ ev' = [op |-> "save", ok |-> r.ok, p |-> DiskLoc]
    /\ UNCHANGED <<vs, cache, pc, loc>>

Load ==
    /\ LET r == VectorStore_load(disk[DiskLoc])
       IN /\ vs' = IF r.ok THEN r.store ELSE vs
          /\ ev' = [op |-> "load", ok |-> r.ok, err |-> r.err, p |-> DiskLoc]
    /\ UNCHANGED <<disk, cache, pc, loc>>

NextDisk == Create \/ Put \/ Save \/ Load

SpecDisk == InitVS /\ [][NextDisk]_vars

----------------------------------------------------------------------------
(* SpecIO: threads running save and load on one location, one file         *)
(* operation per step. The service runs its handlers on a thread pool and  *)
(* the CLI is a process of its own; nothing in save or load takes a lock.  *)

Thr == {1, 2, 3}

\* the stores the threads save: one chunk each, built as the build path does
SampleStore(c) == VectorStore_add(VectorStore_init(1), <<Embed(1, c)>>, <<c>>).store

NoLocals == [s |-> NoStore, index |-> NoStore, ib |-> 0, tb |-> 0, res |-> "none"]

InitIO ==
    /\ vs = NoStore
    /\ disk = [p \in Locs |-> NoFiles]
    /\ ev = NoEv
    /\ cache = <<>>
    /\ pc = [t \in Thr |-> "idle"]
    /\ loc = [t \in Thr |-> NoLocals]

Files == disk[DiskLoc]
SetFiles(f) == disk' = [disk EXCEPT ![DiskLoc] = f]

\* save(path_prefix) is entered: os.makedirs, the two file names
StartSave(t) ==
    /\ pc[t] = "idle"
    /\ \E c \in Chunk : loc' = [loc EXCEPT ![t].s = SampleStore(c)]
    /\ pc' = [pc EXCEPT ![t] = "open_index"]
    /\ UNCHANGED <<vs, disk, ev, cache>>

\* faiss.write_index opens the index file for writing
SaveOpenIndex(t) ==
    /\ pc[t] = "open_index"
    /\ SetFiles(OpenIndex(Files, t))
    /\ pc' = [pc EXCEPT ![t] = "write_index"]
    /\ UNCHANGED <<vs, ev, cache, loc>>

\* faiss.write_index writes the index and closes the file
SaveWriteIndex(t) ==
    /\ pc[t] = "write_index"
    /\ SetFiles(WriteIndex(Files, loc[t].s, t))
    /\ pc' = [pc EXCEPT ![t] = "open_texts"]
    /\ UNCHANGED <<vs, ev, cache, loc>>

\* open(texts_file, "wb")
SaveOpenTexts(t) ==
    /\ pc[t] = "open_texts"
    /\ SetFiles(OpenTexts(Files, t))
    /\ pc' = [pc EXCEPT ![t] = "dump"]
    /\ UNCHANGED <<vs, ev, cache, loc>>

\* pickle.dump(self.texts, f) and the end of save
SaveDump(t) ==
    /\ pc[t] = "dump"
    /\ SetFiles(DumpTexts(Files, loc[t].s, t))
    /\ pc' = [pc EXCEPT ![t] = "done"]
    /\ loc' = [loc EXCEPT ![t].res = "saved"]
    /\ UNCHANGED <<vs, ev, cache>>

\* load(path_prefix) is entered and tests that both files exist
LoadCheck(t) ==
    /\ pc[t] = "idle"
    /\ IF LoadMissing(Files)
       THEN /\ pc' = [pc EXCEPT ![t] = "done"]
            /\ loc' = [loc EXCEPT ![t].res = "FileNotFoundError"]
       ELSE /\ pc' = [pc EXCEPT ![t] = "read_index"]
            /\ loc' = loc
    /\ UNCHANGED <<vs, disk, ev, cache>>

\* faiss.read_index(index_file)
LoadReadIndex(t) ==
    /\ pc[t] = "read_index"
    /\ IF Files.idx.st = "full"
       THEN /\ pc' = [pc EXCEPT ![t] = "read_texts"]
            /\ loc' = [loc EXCEPT ![t].index = read_index(Files.idx.data),
                                  ![t].ib = Files.idx.by]
       ELSE /\ pc' = [pc EXCEPT ![t] = "done"]
            /\ loc' = [loc EXCEPT ![t].res = "RuntimeError"]
    /\ UNCHANGED <<vs, disk, ev, cache>>

\* pickle.load(f) and the construction of the returned VectorStore
LoadReadTexts(t) ==
    /\ pc[t] = "read_texts"
    /\ pc' = [pc EXCEPT ![t] = "done"]
    /\ IF Files.txt.st = "full"
       THEN loc' = [loc EXCEPT ![t].s = Store(loc[t].index, pickle_load(Files.txt.data)),
                               ![t].tb = Files.txt.by,
                               ![t].res = "loaded"]
       ELSE loc' = [loc EXCEPT ![t].res = "EOFError"]
    /\ UNCHANGED <<vs, disk, ev, cache>>

NextIO ==
    \E t \in Thr :
        \/ StartSave(t)
        \/ SaveOpenIndex(t)
        \/ SaveWriteIndex(t)
        \/ SaveOpenTexts(t)
        \/ SaveDump(t)
        \/ LoadCheck(t)
        \/ LoadReadIndex(t)
        \/ LoadReadTexts(t)

SpecIO == InitIO /\ [][NextIO]_vars

----------------------------------------------------------------------------
(* Course registry (rag/course_manager.py) and the build (rag/qa.py) *)

Keys == {upper(id) : id \in Ids}

\* the strings that can be keys of the dict _course_stores: the codes as
\* given and their upper-case forms
Spellings == Ids \cup Keys

\* the dimension of the embedder's vectors
EmbDim == MaxDim

\* get_course_store(course_code): _course_stores.get(course_code.upper())
get_course_store(c, id) == c[upper(id)]

\* a set_course_store that keys the dict by the code as given
set_course_store_raw(c, id, store) == [c EXCEPT ![id] = store]

\* set_course_store(course_code, store)
set_course_store(c, id, store) == [c EXCEPT ![upper(id)] = store]

\* a clear_course_cache that empties the dict whatever code is given
clear_course_cache_all(c, id) == [k \in Spellings |-> NoStore]

\* clear_course_cache(course_code): one entry, or all when no code is given
clear_course_cache(c, id) ==
    IF id = "" THEN [k \in Spellings |-> NoStore]
    ELSE [c EXCEPT ![upper(id)] = NoStore]

\* a load_course_store that reads the files whenever they load and puts
\* what it read in place of the cached store
load_course_store_reloading(c, d, id) ==
    LET r == VectorStore_load(d[get_course_index_path(id)])
    IN IF r.ok
       THEN [out |-> r.store, raised |-> FALSE, loaded |-> TRUE, lerr |-> "",
             cache |-> [c EXCEPT ![upper(id)] = r.store]]
       ELSE [out |-> c[upper(id)], raised |-> FALSE, loaded |-> TRUE, lerr |-> r.err,
             cache |-> c]

\* a load_course_store that lets a failure other than FileNotFoundError escape
load_course_store_raising(c, d, id) ==
    IF c[upper(id)] # NoStore
    THEN [out |-> c[upper(id)], raised |-> FALSE, loaded |-> FALSE, lerr |-> "", cache |-> c]
    ELSE LET r == VectorStore_load(d[get_course_index_path(id)])
         IN IF r.ok
            THEN [out |-> r.store, raised |-> FALSE, loaded |-> TRUE, lerr |-> "",
                  cache |-> [c EXCEPT ![upper(id)] = r.store]]
            ELSE [out |-> NoStore, raised |-> r.err # "FileNotFoundError",
                  loaded |-> TRUE, lerr |-> r.err, cache |-> c]

\* a load_course_store that returns what it loaded without caching it
load_course_store_uncached(c, d, id) ==
    IF c[upper(id)] # NoStore
    THEN [out |-> c[upper(id)], raised |-> FALSE, loaded |-> FALSE, lerr |-> "", cache |-> c]
    ELSE LET r == VectorStore_load(d[get_course_index_path(id)])
         IN [out |-> r.store, raised |-> FALSE, loaded |-> TRUE, lerr |-> r.err, cache |-> c]

\* load_course_store(course_code): the cached store, else the store loaded from
\* the course's index path and cached; None (NoStore) after any failed load.
\* loaded: VectorStore.load was called; lerr: what it raised; raised: whether
\* load_course_store itself raised
load_course_store(c, d, id) ==
    IF c[upper(id)] # NoStore
    THEN [out |-> c[upper(id)], raised |-> FALSE, loaded |-> FALSE, lerr |-> "", cache |-> c]
    ELSE LET r == VectorStore_load(d[get_course_index_path(id)])
         IN IF r.ok
            THEN [out |-> r.store, raised |-> FALSE, loaded |-> TRUE, lerr |-> "",
                  cache |-> [c EXCEPT ![upper(id)] = r.store]]
            ELSE [out |-> NoStore, raised |-> FALSE, loaded |-> TRUE, lerr |-> r.err,
                  cache |-> c]

\* what load_texts and chunk_text make of a notes folder: the folder is
\* missing, or it yields these chunks
Corpus == {<<>>, <<"p">>, <<"q", "p">>}
Notes == {[exists |-> FALSE, chunks |-> <<>>]} \cup {[exists |-> TRUE, chunks |-> cs] : cs \in Corpus}

\* embed_texts(all_chunks)
embed_texts(chunks) == [i \in 1..Len(chunks) |-> Embed(EmbDim, chunks[i])]

\* the result of build_knowledge_base_from_dir. read: load_texts was called;
\* embedded: embed_texts was called; savefail: save raised (and was logged)
BuildResult(ok, err, out, built, read, embedded, savefail, c, d) ==
    [ok |-> ok, err |-> err, out |-> out, built |-> built, read |-> read,
     embedded |-> embedded, savefail |-> savefail, cache |-> c, disk |-> d]

\* the steps of build_knowledge_base_from_dir after the failed load: read and
\* chunk the notes, embed, add, save (a failed save is logged and swallowed),
\* cache
build_from_scratch(c, d, notes, p, id, fault) ==
    IF ~notes.exists
    THEN BuildResult(FALSE, "FileNotFoundError", NoStore, FALSE, TRUE, FALSE, FALSE, c, d)
    ELSE IF notes.chunks = <<>>
    THEN BuildResult(FALSE, "ValueError", NoStore, FALSE, TRUE, FALSE, FALSE, c, d)
    ELSE LET vectors == embed_texts(notes.chunks)
             a == VectorStore_add(VectorStore_init(Len(vectors[1])), vectors, notes.chunks)
             sv == VectorStore_save(a.store, d[p], fault, 0)
         IN IF ~a.ok
            THEN BuildResult(FALSE, a.err, NoStore, FALSE, TRUE, TRUE, FALSE, c, d)
            ELSE BuildResult(TRUE, "", a.store, TRUE, TRUE, TRUE, ~sv.ok,
                             set_course_store(c, id, a.store), [d EXCEPT ![p] = sv.files])

\* a build that returns the loaded index without caching it
build_load_uncached(c, d, notes, p, id, fault) ==
    LET r == VectorStore_load(d[p])
    IN IF r.ok
       THEN BuildResult(TRUE, "", r.store, FALSE, FALSE, FALSE, FALSE, c, d)
       ELSE build_from_scratch(c, d, notes, p, id, fault)

\* a build that embeds before it looks at the number of chunks, and caches
\* the empty index
build_empty_index(c, d, notes, p, id, fault) ==
    LET r == VectorStore_load(d[p])
    IN IF r.ok
       THEN BuildResult(TRUE, "", r.store, FALSE, FALSE, FALSE, FALSE,
                        set_course_store(c, id, r.store), d)
       ELSE IF notes.exists /\ notes.chunks = <<>>
       THEN BuildResult(TRUE, "", VectorStore_init(EmbDim), TRUE, TRUE, TRUE, FALSE,
                        set_course_store(c, id, VectorStore_init(EmbDim)), d)
       ELSE build_from_scratch(c, d, notes, p, id, fault)

\* a build that lets the failure of save reach its caller
build_save_raises(c, d, notes, p, id, fault) ==
    LET r == VectorStore_load(d[p])
        b == build_from_scratch(c, d, notes, p, id, fault)
    IN IF r.ok
       THEN BuildResult(TRUE, "", r.store, FALSE, FALSE, FALSE, FALSE,
                        set_course_store(c, id, r.store), d)
       ELSE IF b.savefail
       THEN BuildResult(FALSE, "OSError", NoStore, FALSE, TRUE, TRUE, TRUE, c, b.disk)
       ELSE b

\* build_knowledge_base_from_dir(folder_path, index_path, course_code): load
\* the persisted index at index_path and cache it (the cache is not looked
\* at); after any failed load, build from the notes
build_knowledge_base_from_dir(c, d, notes, p, id, fault) ==
    LET r == VectorStore_load(d[p])
    IN IF r.ok
       THEN BuildResult(TRUE, "", r.store, FALSE, FALSE, FALSE, FALSE,
                        set_course_store(c, id, r.store), d)
       ELSE build_from_scratch(c, d, notes, p, id, fault)

\* cmd_build of scripts/manage_index.py, run in a process of its own, whose
\* cache starts empty and ends with it. given: --index-path was passed,
\* otherwise the path is get_course_index_path(course), whose os.makedirs can
\* raise (mk false) outside every try: the interpreter then ends with status
\* 1. A missing notes folder is exit 1, --force removes the index files, an
\* exception of the build is exit 2.
cmd_build(d, notes, p, given, id, force, fault, mk) ==
    LET path == IF given THEN p ELSE get_course_index_path(id)
        d1 == IF force THEN [d EXCEPT ![path] = NoFiles] ELSE d
        b == build_knowledge_base_from_dir([k \in Spellings |-> NoStore], d1, notes, path, id, fault)
    IN IF ~given /\ ~mk THEN [exit |-> 1, err |-> "OSError", uncaught |-> TRUE, disk |-> d]
       ELSE IF ~notes.exists
       THEN [exit |-> 1, err |-> "notes not found", uncaught |-> FALSE, disk |-> d]
       ELSE [exit |-> IF b.ok THEN 0 ELSE 2, err |-> b.err, uncaught |-> FALSE, disk |-> b.disk]

\* cmd_load of scripts/manage_index.py: VectorStore.load and the exit code
cmd_load(d, p) ==
    LET r == VectorStore_load(d[p])
    IN [err |-> r.err,
        exit |-> IF r.ok THEN 0 ELSE IF r.err = "FileNotFoundError" THEN 1 ELSE 2]

----------------------------------------------------------------------------
(* SpecReg: one caller at a time on the registry, the build and the files *)

InitReg ==
    /\ vs = NoStore
    /\ disk = [p \in Locs |-> NoFiles]
    /\ ev = NoEv
    /\ cache = [k \in Spellings |-> NoStore]
    /\ pc = <<>>
    /\ loc = <<>>

\* the notes are read only after a failed load, and the file system is
\* written only when the notes yield chunks: the inputs that are never looked
\* at are not varied
NotesRead(d, p) ==
    IF VectorStore_load(d[p]).ok THEN {[exists |-> FALSE, chunks |-> <<>>]} ELSE Notes
FaultsMet(d, p, notes) ==
    IF VectorStore_load(d[p]).ok \/ notes.chunks = <<>> THEN {"none"} ELSE SaveFaults

Build ==
    /\ \E id \in Ids, p \in Locs :
       \E notes \in NotesRead(disk, p) :
       \E fault \in FaultsMet(disk, p, notes) :
        \E r \in {build_knowledge_base_from_dir(cache, disk, notes, p, id, fault)} :
           /\ cache' = r.cache
           /\ disk' = r.disk
           /\ ev' = [op |-> "build", id |-> id, p |-> p, ok |-> r.ok, err |-> r.err,
                     out |-> r.out, built |-> r.built, read |-> r.read,
                     embedded |-> r.embedded, savefail |-> r.savefail,
                     hit |-> cache[upper(id)] # NoStore,
                     nchunks |-> IF notes.exists THEN Len(notes.chunks) ELSE -1]
    /\ UNCHANGED <<vs, pc, loc>>

Resolve ==
    /\ \E id \in Ids :
        \E r \in {load_course_store(cache, disk, id)} :
           /\ cache' = r.cache
           /\ ev' = [op |-> "resolve", id |-> id, out |-> r.out, raised |-> r.raised,
                     loaded |-> r.loaded, lerr |-> r.lerr]
    /\ UNCHANGED <<vs, disk, pc, loc>>

GetCached ==
    /\ \E id \in Ids :
        ev' = [op |-> "get_cached", id |-> id, out |-> get_course_store(cache, id)]
    /\ UNCHANGED <<vs, disk, cache, pc, loc>>

Evict ==
    /\ \E id \in Ids \cup {""} :
        /\ cache' = clear_course_cache(cache, id)
        /\ ev' = [op |-> "evict", id |-> id]
    /\ UNCHANGED <<vs, disk, pc, loc>>

CmdLoad ==
    /\ \E p \in Locs :
        \E r \in {cmd_load(disk, p)} :
           ev' = [op |-> "cmd_load", p |-> p, err |-> r.err, exit |-> r.exit]
    /\ UNCHANGED <<vs, disk, cache, pc, loc>>

IsIndexed ==
    /\ \E id \in Ids :
        ev' = [op |-> "is_indexed", id |-> id, out |-> is_course_indexed(disk, id)]
    /\ UNCHANGED <<vs, disk, cache, pc, loc>>

NextReg == Build \/ Resolve \/ GetCached \/ Evict \/ CmdLoad \/ IsIndexed

SpecReg == InitReg /\ [][NextReg]_vars

----------------------------------------------------------------------------
(* SpecCli: runs of scripts/manage_index.py build and load, one at a time,  *)
(* each in a process of its own, over the files they leave behind.          *)

\* manage_index.py build, with the notes folder as it is; the save faults
\* are tried when the build gets as far as saving
CmdBuild ==
    /\ \E id \in Ids, p \in Locs, given \in BOOLEAN, force \in BOOLEAN, notes \in Notes :
       \E mk \in (IF given THEN {TRUE} ELSE BOOLEAN) :
       \E fault \in (IF notes.chunks = <<>> \/ (~given /\ ~mk) THEN {"none"} ELSE SaveFaults) :
        \E r \in {cmd_build(disk, notes, p, given, id, force, fault, mk)} :
           /\ (given \/ p = get_course_index_path(id))
           /\ disk' = r.disk
           /\ ev' = [op |-> "cmd_build", id |-> id, exit |-> r.exit, err |-> r.err,
                     uncaught |-> r.uncaught, nchunks |-> Len(notes.chunks)]
    /\ UNCHANGED <<vs, cache, pc, loc>>

NextCli == CmdBuild \/ CmdLoad

SpecCli == InitReg /\ [][NextCli]_vars

----------------------------------------------------------------------------
(* Token estimates (rag/token_manager.py) and the prompt (rag/prompt.py).   *)
(* A text is its number of whitespace-separated words and of characters.    *)

CHARS_PER_TOKEN == 4
RESERVED_TOKENS == 500
\* top_k of the search in answer_question
TopK == 3
\* max_context_tokens of the first truncation, and the limit of the second
max_context_tokens == 120000
SecondPassTokens == 15000
\* the template of build_prompt around an empty context and question, and
\* the separator "\n\n---\n\n" between two chunks
TemplateChars == 198
TemplateWords == 32
SepChars == 7
SepWords == 1

Max(a, b) == IF a >= b THEN a ELSE b

Text(words, chars) == [words |-> words, chars |-> chars]

\* the text of a chunk: a short one, and one of 50000 estimated tokens
\* "a", "b", "c" are the one-word chunks of 100, 200 and 300 characters
ChunkText(c) ==
    CASE c = "p" -> Text(4, 20)
      [] c = "a" -> Text(1, 100)
      [] c = "b" -> Text(1, 200)
      [] c = "c" -> Text(1, 300)
      [] OTHER -> Text(30000, 200000)

\* estimate_tokens(text): max(int(word_count * 1.3), int(char_count / 4))
estimate_tokens(t) == Max((13 * t.words) \div 10, t.chars \div CHARS_PER_TOKEN)

\* get_token_limit(model): TOKEN_LIMITS.get(model, 4096)
get_token_limit(model) ==
    IF model \in {"gpt-4o-mini", "gpt-4o", "gpt-4-turbo"} THEN 128000 ELSE 4096

\* a loop that skips a chunk that does not fit and goes on to the next one
RECURSIVE TruncateSkipping(_, _, _)
TruncateSkipping(chunks, total, max_tokens) ==
    IF chunks = <<>> THEN <<>>
    ELSE LET n == estimate_tokens(ChunkText(Head(chunks)))
         IN IF total + n <= max_tokens
            THEN <<Head(chunks)>> \o TruncateSkipping(Tail(chunks), total + n, max_tokens)
            ELSE TruncateSkipping(Tail(chunks), total, max_tokens)

\* the loop of truncate_chunks_by_tokens: keep chunks while the running total
\* stays within max_tokens, stop at the first one that does not fit
RECURSIVE TruncateFrom(_, _, _)
TruncateFrom(chunks, total, max_tokens) ==
    IF chunks = <<>> THEN <<>>
    ELSE LET n == estimate_tokens(ChunkText(Head(chunks)))
         IN IF total + n <= max_tokens
            THEN <<Head(chunks)>> \o TruncateFrom(Tail(chunks), total + n, max_tokens)
            ELSE <<>>

\* a truncation that, having cut something off, gives up one chunk more
truncate_with_margin(chunks, max_tokens) ==
    LET r == TruncateFrom(chunks, 0, max_tokens)
    IN IF r # <<>> /\ Len(r) < Len(chunks) THEN SubSeq(r, 1, Len(r) - 1) ELSE r

\* truncate_chunks_by_tokens(chunks, max_tokens)
truncate_chunks_by_tokens(chunks, max_tokens) == TruncateFrom(chunks, 0, max_tokens)

\* "\n\n---\n\n".join(context)
RECURSIVE Joined(_)
Joined(context) ==
    IF context = <<>> THEN Text(0, 0)
    ELSE LET h == ChunkText(Head(context))
             t == Joined(Tail(context))
         IN IF Tail(context) = <<>> THEN h
            ELSE Text(h.words + SepWords + t.words, h.chars + SepChars + t.chars)

\* build_prompt(question, context): the template around the joined chunks and
\* the question
build_prompt(question, context) ==
    LET j == Joined(context)
    IN Text(TemplateWords + j.words + question.words,
            TemplateChars + j.chars + question.chars)

\* an is_prompt_safe that wants the estimate strictly below the budget
is_prompt_safe_strict(prompt, model) ==
    LET limit == get_token_limit(model)
        est == estimate_tokens(prompt)
    IN [is_safe |-> est < limit - RESERVED_TOKENS,
        info |-> [estimated_tokens |-> est, token_limit |-> limit,
                  reserved_tokens |-> RESERVED_TOKENS,
                  available_tokens |-> limit - RESERVED_TOKENS,
                  is_safe |-> est < limit - RESERVED_TOKENS]]

\* is_prompt_safe(prompt, model), both components: the verdict and the dict
is_prompt_safe_info(prompt, model) ==
    LET token_limit == get_token_limit(model)
        estimated_tokens == estimate_tokens(prompt)
        available_tokens == token_limit - RESERVED_TOKENS
        is_safe == estimated_tokens <= available_tokens
    IN [is_safe |-> is_safe,
        info |-> [estimated_tokens |-> estimated_tokens, token_limit |-> token_limit,
                  reserved_tokens |-> RESERVED_TOKENS,
                  available_tokens |-> available_tokens, is_safe |-> is_safe]]

\* is_prompt_safe(prompt, model), its first component
is_prompt_safe(prompt, model) ==
    estimate_tokens(prompt) <= get_token_limit(model) - RESERVED_TOKENS

----------------------------------------------------------------------------
(* answer_question (rag/qa.py) *)

\* get_course_notes_path: NOTES_BASE_DIR joined with the code as given
get_course_notes_path(id) == id

\* questions: a short one, one of 30000 estimated tokens, one of 130000; emb
\* is the chunk whose embedding the question's embedding equals
Questions ==
    {[text |-> Text(3, 15), emb |-> "p"],
     [text |-> Text(20000, 120000), emb |-> "q"],
     [text |-> Text(90000, 520000), emb |-> "p"]}

\* str(e) of an exception that is not one of the OpenAI client's
ExcText == {"boom", "oops"}

\* str(e) of what VectorStore.search raises
SearchErrText(err) == IF err = "IndexError" THEN "list index out of range" ELSE ""

\* the exception classes the generation call raises, with their base classes
GenFaults == {"AuthenticationError", "RateLimitError", "APIConnectionError", "APIError", "Exception"}
Bases(cls) ==
    CASE cls = "AuthenticationError" -> {"AuthenticationError", "APIError", "Exception"}
      [] cls = "RateLimitError" -> {"RateLimitError", "APIError", "Exception"}
      [] cls = "APIConnectionError" -> {"APIConnectionError", "APIError", "Exception"}
      [] cls = "APIError" -> {"APIError", "Exception"}
      [] OTHER -> {"Exception"}

\* the outcomes of openai.chat.completions.create
GenOutcomes ==
    {[cls |-> "ok", text |-> "answer"]}
        \cup {[cls |-> c, text |-> "status"] : c \in GenFaults \ {"Exception"}}
        \cup {[cls |-> "Exception", text |-> t] : t \in ExcText}

\* the strings answer_question returns
MsgNotInitialized(id) ==
    <<"Error: Knowledge base for course ", upper(id),
      " is not initialized. Please run: scripts/manage_index.py build --notes ",
      get_course_notes_path(id)>>
MsgAuth == <<"Error: Authentication failed. Please check your OpenAI API key.">>
MsgRateLimit == <<"Error: Too many requests to OpenAI. Please try again later.">>
MsgApi == <<"Error: OpenAI API error. Please try again.">>
MsgError(text) == <<"Error: ", text>>

\* an except chain that tests the base class APIError first
handle_api_first(cls, text) ==
    IF "APIError" \in Bases(cls) THEN MsgApi
    ELSE IF "AuthenticationError" \in Bases(cls) THEN MsgAuth
    ELSE IF "RateLimitError" \in Bases(cls) THEN MsgRateLimit
    ELSE MsgError(text)

\* the except chain of answer_question, in its order
handle(cls, text) ==
    IF "AuthenticationError" \in Bases(cls) THEN MsgAuth
    ELSE IF "RateLimitError" \in Bases(cls) THEN MsgRateLimit
    ELSE IF "APIError" \in Bases(cls) THEN MsgApi
    ELSE MsgError(text)

\* what a call of answer_question did. res: how the store was resolved;
\* raised: an exception left answer_question; fail: the step that failed;
\* msg: the string returned; embedded, generated: model.encode and the
\* generator were called; nfound: chunks the search returned; ptok:
\* estimate_tokens of the prompt sent to the generator
AnswerResult(res, raised, fail, msg, embedded, nfound, generated, ptok, c) ==
    [res |-> res, raised |-> raised, fail |-> fail, msg |-> msg,
     embedded |-> embedded, nfound |-> nfound, generated |-> generated,
     ptok |-> ptok, cache |-> c]

\* answer_question from the search result on: the two truncations, the
\* prompt, the generation call and the except chain
answer_from_chunks(c, q, env, res, so) ==
    IF ~so.ok
    THEN AnswerResult(res, FALSE, "search", MsgError(SearchErrText(so.err)),
                      TRUE, -1, FALSE, -1, c)
    ELSE LET safe1 == truncate_chunks_by_tokens(so.out, max_context_tokens)
             prompt1 == build_prompt(q.text, safe1)
             safe2 == IF is_prompt_safe(prompt1, "gpt-4o-mini") THEN safe1
                      ELSE truncate_chunks_by_tokens(safe1, SecondPassTokens)
             prompt == build_prompt(q.text, safe2)
         IN IF env.gen.cls = "ok"
            THEN AnswerResult(res, FALSE, "none", <<env.gen.text>>,
                              TRUE, Len(so.out), TRUE, estimate_tokens(prompt), c)
            ELSE AnswerResult(res, FALSE, "generate", handle(env.gen.cls, env.gen.text),
                              TRUE, Len(so.out), TRUE, estimate_tokens(prompt), c)

\* an answer_question that embeds the question before it resolves the store
answer_question_embed_first(c, d, id, q, env) ==
    LET k == upper(id)
        cached == get_course_store(c, k)
        l == IF cached # NoStore THEN [out |-> cached, cache |-> c]
             ELSE load_course_store(c, d, k)
    IN IF env.emb # "ok"
       THEN {AnswerResult("none", FALSE, "embed", MsgError(env.emb), TRUE, -1, FALSE, -1, c)}
       ELSE IF cached = NoStore /\ ~env.mk
       THEN {AnswerResult("raised", TRUE, "resolve", <<>>, TRUE, -1, FALSE, -1, c)}
       ELSE IF l.out = NoStore
       THEN {AnswerResult("absent", FALSE, "absent", MsgNotInitialized(id),
                          TRUE, -1, FALSE, -1, l.cache)}
       ELSE {answer_from_chunks(l.cache, q, env,
                                IF cached # NoStore THEN "cached" ELSE "loaded", so) :
             so \in VectorStore_search(l.out, Embed(EmbDim, q.emb), TopK)}

\* an answer_question that resolves the store from the course's index path
\* only, without looking at the cache
answer_question_load_only(c, d, id, q, env) ==
    LET r == VectorStore_load(d[get_course_index_path(id)])
    IN IF ~env.mk
       THEN {AnswerResult("raised", TRUE, "resolve", <<>>, FALSE, -1, FALSE, -1, c)}
       ELSE IF ~r.ok
       THEN {AnswerResult("absent", FALSE, "absent", MsgNotInitialized(id),
                          FALSE, -1, FALSE, -1, c)}
       ELSE IF env.emb # "ok"
       THEN {AnswerResult("loaded", FALSE, "embed", MsgError(env.emb), TRUE, -1, FALSE, -1, c)}
       ELSE {answer_from_chunks(c, q, env, "loaded", so) :
             so \in VectorStore_search(r.store, Embed(EmbDim, q.emb), TopK)}

\* answer_question(question, course_code): every outcome of the call. env.mk:
\* os.makedirs of get_course_index_path succeeds; env.emb: "ok" or the str of
\* what model.encode raises; env.gen: the outcome of the generation call
answer_question(c, d, id, q, env) ==
    LET k == upper(id)
        cached == get_course_store(c, k)
        l == IF cached # NoStore THEN [out |-> cached, cache |-> c]
             ELSE load_course_store(c, d, k)
        res == IF cached # NoStore THEN "cached" ELSE "loaded"
    IN IF cached = NoStore /\ ~env.mk
       THEN {AnswerResult("raised", TRUE, "resolve", <<>>, FALSE, -1, FALSE, -1, c)}
       ELSE IF l.out = NoStore
       THEN {AnswerResult("absent", FALSE, "absent", MsgNotInitialized(id),
                          FALSE, -1, FALSE, -1, l.cache)}
       ELSE IF env.emb # "ok"
       THEN {AnswerResult(res, FALSE, "embed", MsgError(env.emb), TRUE, -1, FALSE, -1, l.cache)}
       ELSE {answer_from_chunks(l.cache, q, env, res, so) :
             so \in VectorStore_search(l.out, Embed(EmbDim, q.emb), TopK)}

----------------------------------------------------------------------------
(* SpecQA: one caller at a time asking questions over the cache and files *)

\* stores a caller can have built: empty, one long chunk, two chunks, three
\* vectors added without chunks, and one of another dimension
QAStores ==
    {VectorStore_init(EmbDim),
     VectorStore_add(VectorStore_init(EmbDim), <<Embed(EmbDim, "q")>>, <<"q">>).store,
     VectorStore_add(VectorStore_init(EmbDim),
                     <<Embed(EmbDim, "p"), Embed(EmbDim, "q")>>, <<"p", "q">>).store,
     VectorStore_add(VectorStore_init(EmbDim),
                     <<Embed(EmbDim, "p"), Embed(EmbDim, "p"), Embed(EmbDim, "p")>>,
                     <<>>).store,
     VectorStore_add(VectorStore_init(1), <<Embed(1, "p")>>, <<"p">>).store}

\* set_course_store(course_code, store): any of the stores for course CS, the
\* two-chunk store for course MA
Install ==
    /\ \E id \in Ids, s \in QAStores :
        /\ upper(id) = "MA" => Len(s.texts) = 2
        /\ cache' = set_course_store(cache, id, s)
        /\ ev' = [op |-> "install", id |-> id]
    /\ UNCHANGED <<vs, disk, pc, loc>>

\* store.save(index_path) at the location of course CS, complete or failing
\* in pickle.dump
Persist ==
    /\ \E s \in QAStores, fault \in {"none", "dump"} :
        /\ Len(s.texts) # 1
        /\ disk' = [disk EXCEPT ![DiskLoc] = VectorStore_save(s, disk[DiskLoc], fault, 0).files]
        /\ ev' = [op |-> "persist", id |-> "cs"]
    /\ UNCHANGED <<vs, cache, pc, loc>>

\* the faults a call can meet: a step that is not reached is not varied
MkdirOutcomes(c, id) == IF c[upper(id)] = NoStore THEN BOOLEAN ELSE {TRUE}
Resolvable(c, d, id, mk) ==
    c[upper(id)] # NoStore \/ (mk /\ VectorStore_load(d[get_course_index_path(id)]).ok)
EmbedOutcomes(c, d, id, mk) ==
    IF Resolvable(c, d, id, mk) THEN {"ok"} \cup ExcText ELSE {"ok"}
GenReached(c, d, id, mk, emb) ==
    IF Resolvable(c, d, id, mk) /\ emb = "ok" THEN GenOutcomes
    ELSE {[cls |-> "ok", text |-> "answer"]}

Ask ==
    /\ \E id \in Ids, q \in Questions :
       \E mk \in MkdirOutcomes(cache, id) :
       \E emb \in EmbedOutcomes(cache, disk, id, mk) :
       \E gen \in GenReached(cache, disk, id, mk, emb) :
       \E r \in answer_question(cache, disk, id, q, [mk |-> mk, emb |-> emb, gen |-> gen]) :
           /\ cache' = r.cache
           /\ ev' = [op |-> "ask", id |-> id, res |-> r.res, raised |-> r.raised,
                     fail |-> r.fail, msg |-> r.msg, embedded |-> r.embedded,
                     nfound |-> r.nfound, generated |-> r.generated, ptok |-> r.ptok,
                     gcls |-> IF r.fail = "generate" THEN gen.cls ELSE ""]
    /\ UNCHANGED <<vs, disk, pc, loc>>

NextQA == Install \/ Persist \/ Evict \/ Ask

SpecQA == InitReg /\ [][NextQA]_vars

----------------------------------------------------------------------------
(* SpecCache: one caller at a time on the cache operations of               *)
(* rag/course_manager.py, over files written by VectorStore.save.           *)

\* set_course_store(course_code, store) with any of the stores
SetCached ==
    /\ \E id \in Ids, s \in QAStores :
        /\ cache' = set_course_store(cache, id, s)
        /\ ev' = [op |-> "set_cached", id |-> id, store |-> s]
    /\ UNCHANGED <<vs, disk, pc, loc>>

NextCache == SetCached \/ GetCached \/ Evict \/ Resolve \/ Persist

SpecCache == InitReg /\ [][NextCache]_vars

----------------------------------------------------------------------------
(* SpecFrame: one caller at a time on the operations that write the cache:  *)
(* set_course_store, load_course_store, the build and clear_course_cache.   *)

NextFrame == Install \/ Build \/ Resolve \/ Evict

SpecFrame == InitReg /\ [][NextFrame]_vars

----------------------------------------------------------------------------
(* SpecE2E: one caller at a time building and asking *)

\* answer_question(question, course_code) while the embedder and the
\* generator work
Query ==
    /\ \E id \in Ids, q \in Questions :
       \E mk \in MkdirOutcomes(cache, id) :
       \E r \in answer_question(cache, disk, id, q,
                                [mk |-> mk, emb |-> "ok", gen |-> [cls |-> "ok", text |-> "answer"]]) :
           /\ cache' = r.cache
           /\ ev' = [op |-> "ask", id |-> id, res |-> r.res, raised |-> r.raised,
                     fail |-> r.fail, msg |-> r.msg, embedded |-> r.embedded,
                     nfound |-> r.nfound, generated |-> r.generated, ptok |-> r.ptok,
                     gcls |-> ""]
    /\ UNCHANGED <<vs, disk, pc, loc>>

NextE2E == Build \/ Query

SpecE2E == InitReg /\ [][NextE2E]_vars

----------------------------------------------------------------------------
(* SpecReload: one caller at a time on POST /courses/{code}/reload of       *)
(* api/ask.py and on clear_course_cache.                                    *)

\* reload_course(course_code) of api/ask.py: the paths of the code (making
\* the index directory can raise, outside the try), then the build, whose
\* exception becomes the status "error"
reload_course(c, d, notes, id, fault, mk) ==
    LET b == build_knowledge_base_from_dir(c, d, notes, get_course_index_path(id), id, fault)
    IN IF ~mk THEN [status |-> "raised", error |-> "OSError", cache |-> c, disk |-> d]
       ELSE [status |-> IF b.ok THEN "ok" ELSE "error", error |-> b.err,
             cache |-> b.cache, disk |-> b.disk]

\* POST /courses/{course_code}/reload, the notes folder being as it is at
\* the time of the call
Reload ==
    /\ \E id \in Ids, notes \in Notes, mk \in BOOLEAN :
       \E fault \in FaultsMet(disk, get_course_index_path(id), notes) :
        \E r \in {reload_course(cache, disk, notes, id, fault, mk)} :
           /\ cache' = r.cache
           /\ disk' = r.disk
           /\ ev' = [op |-> "reload", id |-> id, status |-> r.status,
                     error |-> r.error, notes |-> notes.chunks]
    /\ UNCHANGED <<vs, pc, loc>>

NextReload == Reload \/ Evict

SpecReload == InitReg /\ [][NextReload]_vars

----------------------------------------------------------------------------
(* SpecLive: one call of answer_question at a time, a step per external     *)
(* call, while stores are cached and saved between its steps.               *)
(* model.encode and openai.chat.completions.create are called without a     *)
(* timeout argument. The OpenAI client applies its own default timeout and  *)
(* raises APITimeoutError, an APIConnectionError, when it expires: the      *)
(* return of the generation call is a fair step. model.encode is a local    *)
(* computation (with a model download on its first use) that nothing        *)
(* bounds: its return is not a fair step.                                   *)

InitLive ==
    /\ vs = NoStore
    /\ disk = [p \in Locs |-> NoFiles]
    /\ ev = NoEv
    /\ cache = [k \in Spellings |-> NoStore]
    /\ pc = "idle"
    /\ loc = [id |-> "", q |-> [text |-> Text(3, 15), emb |-> "p"], store |-> NoStore,
              so |-> [ok |-> TRUE, err |-> "", labels |-> <<>>, out |-> <<>>], msg |-> <<>>]

\* a call of answer_question, after the last one has returned: the store is
\* resolved, and model.encode is called unless there is none
QStart ==
    /\ pc \in {"idle", "answered", "failed"}
    /\ \E id \in Ids, q \in Questions :
        \E l \in {load_course_store(cache, disk, upper(id))} :
           /\ cache' = l.cache
           /\ loc' = [loc EXCEPT !.id = id, !.q = q, !.store = l.out,
                                 !.msg = IF l.out = NoStore THEN MsgNotInitialized(id) ELSE <<>>]
           /\ pc' = IF l.out = NoStore THEN "failed" ELSE "embedding"
    /\ UNCHANGED <<vs, disk, ev>>

\* model.encode returns or raises; after the vector, the search, whose
\* failure ends the call, and the generation call
EmbedReturn ==
    /\ pc = "embedding"
    /\ \E emb \in {"ok"} \cup ExcText :
        IF emb # "ok"
        THEN pc' = "failed" /\ loc' = [loc EXCEPT !.msg = MsgError(emb)]
        ELSE \E so \in VectorStore_search(loc.store, Embed(EmbDim, loc.q.emb), TopK) :
                /\ pc' = IF so.ok THEN "generating" ELSE "failed"
                /\ loc' = [loc EXCEPT !.so = so,
                                      !.msg = IF so.ok THEN <<>> ELSE MsgError(SearchErrText(so.err))]
    /\ UNCHANGED <<vs, disk, ev, cache>>

\* openai.chat.completions.create returns or raises, the client's timeout
\* included, and answer_question returns the content or the error string
GenReturn ==
    /\ pc = "generating"
    /\ \E gen \in GenOutcomes :
        \E r \in {answer_from_chunks(cache, loc.q, [gen |-> gen], "cached", loc.so)} :
           /\ pc' = IF r.fail = "none" THEN "answered" ELSE "failed"
           /\ loc' = [loc EXCEPT !.msg = r.msg]
    /\ UNCHANGED <<vs, disk, ev, cache>>

NextLive == Install \/ Persist \/ QStart \/ EmbedReturn \/ GenReturn

SpecLive == InitLive /\ [][NextLive]_vars /\ WF_vars(GenReturn)

----------------------------------------------------------------------------
(* SpecPar: requests to /courses/{code}/reload running                     *)
(* build_knowledge_base_from_dir on the server's worker threads, one step  *)
(* of the build at a time. Nothing in reload_course, the build or          *)
(* set_course_store takes a lock.                                          *)

Workers == {1, 2}

NoBuild == [id |-> "", chunks |-> <<>>, vectors |-> <<>>, store |-> NoStore, res |-> ""]

InitPar ==
    /\ vs = NoStore
    /\ disk = [p \in Locs |-> NoFiles]
    /\ ev = NoEv
    /\ cache = [k \in Spellings |-> NoStore]
    /\ pc = [t \in Workers |-> "idle"]
    /\ loc = [t \in Workers |-> NoBuild]

\* the steps from load_texts to set_course_store
BuildSteps == {"load_texts", "chunk", "embed", "add", "save", "cache"}

Goto(t, label) == pc' = [pc EXCEPT ![t] = label]
Finish(t, res) ==
    /\ pc' = [pc EXCEPT ![t] = "done"]
    /\ loc' = [loc EXCEPT ![t].res = res]

\* reload_course(course_code): the notes path and the index path of the code
ReloadStart(t) ==
    /\ pc[t] = "idle"
    /\ \E id \in Ids : loc' = [loc EXCEPT ![t] = [NoBuild EXCEPT !.id = id]]
    /\ Goto(t, "load")
    /\ UNCHANGED <<vs, disk, ev, cache>>

\* VectorStore.load(index_path): cache and return what was loaded, or go on
\* to build from scratch
BuildTryLoad(t) ==
    /\ pc[t] = "load"
    /\ \E r \in {VectorStore_load(disk[get_course_index_path(loc[t].id)])} :
        IF r.ok
        THEN /\ cache' = set_course_store(cache, loc[t].id, r.store)
             /\ Finish(t, "loaded")
        ELSE /\ Goto(t, "load_texts")
             /\ UNCHANGED <<cache, loc>>
    /\ UNCHANGED <<vs, disk, ev>>

\* the notes folder of a course as a request finds it: missing, without
\* chunks, or with either corpus (the notes can change between two requests)
ParNotes == Notes

\* load_texts(folder_path): a missing folder raises
BuildLoadTexts(t) ==
    /\ pc[t] = "load_texts"
    /\ \E notes \in ParNotes :
        IF notes.exists
        THEN /\ Goto(t, "chunk")
             /\ loc' = [loc EXCEPT ![t].chunks = notes.chunks]
        ELSE Finish(t, "FileNotFoundError")
    /\ UNCHANGED <<vs, disk, ev, cache>>

\* chunk_text over the texts; no chunk at all raises ValueError
BuildChunk(t) ==
    /\ pc[t] = "chunk"
    /\ IF loc[t].chunks = <<>>
       THEN Finish(t, "ValueError")
       ELSE Goto(t, "embed") /\ UNCHANGED loc
    /\ UNCHANGED <<vs, disk, ev, cache>>

\* vectors = embed_texts(all_chunks)
BuildEmbed(t) ==
    /\ pc[t] = "embed"
    /\ loc' = [loc EXCEPT ![t].vectors = embed_texts(loc[t].chunks)]
    /\ Goto(t, "add")
    /\ UNCHANGED <<vs, disk, ev, cache>>

\* vs = VectorStore(dim); vs.add(vectors, all_chunks)
BuildAdd(t) ==
    /\ pc[t] = "add"
    /\ \E a \in {VectorStore_add(VectorStore_init(Len(loc[t].vectors[1])),
                                 loc[t].vectors, loc[t].chunks)} :
        IF a.ok
        THEN /\ loc' = [loc EXCEPT ![t].store = a.store]
             /\ Goto(t, "save")
        ELSE Finish(t, a.err)
    /\ UNCHANGED <<vs, disk, ev, cache>>

\* vs.save(index_path); a failure is logged and the build goes on
BuildSave(t) ==
    /\ pc[t] = "save"
    /\ \E fault \in SaveFaults :
        LET p == get_course_index_path(loc[t].id)
        IN disk' = [disk EXCEPT ![p] = VectorStore_save(loc[t].store, disk[p], fault, 0).files]
    /\ Goto(t, "cache")
    /\ UNCHANGED <<vs, ev, cache, loc>>

\* set_course_store(course_code, vs); return vs
BuildCache(t) ==
    /\ pc[t] = "cache"
    /\ cache' = set_course_store(cache, loc[t].id, loc[t].store)
    /\ Finish(t, "built")
    /\ UNCHANGED <<vs, disk, ev>>

\* the handler returns its response
ReloadReturn(t) ==
    /\ pc[t] = "done"
    /\ Goto(t, "idle")
    /\ loc' = [loc EXCEPT ![t] = NoBuild]
    /\ UNCHANGED <<vs, disk, ev, cache>>

NextPar ==
    \E t \in Workers :
        \/ ReloadStart(t)
        \/ BuildTryLoad(t)
        \/ BuildLoadTexts(t)
        \/ BuildChunk(t)
        \/ BuildEmbed(t)
        \/ BuildAdd(t)
        \/ BuildSave(t)
        \/ BuildCache(t)
        \/ ReloadReturn(t)

SpecPar == InitPar /\ [][NextPar]_vars

----------------------------------------------------------------------------
(* SpecFn: one caller applying the functions that keep no state:             *)
(* truncate_chunks_by_tokens, the two path derivations and the constructor  *)
(* of VectorStore.                                                          *)

MaxChunks == 3

\* the chunks of a retrieved context and the budgets tried on them
TokChunks == {"a", "b", "c", "p"}
Budgets == {0, 4, 25, 60, 75, 125, 150}

\* VectorStore(dim): the argument is <<>> when dim is not given. faiss does
\* not check d: IndexFlatL2(0) is an index, and so is IndexFlatL2(d) for a
\* negative d unless the binding refuses it
VectorStore_new(arg) ==
    IF arg = <<>> THEN {[ok |-> FALSE, err |-> "ValueError", store |-> NoStore]}
    ELSE {[ok |-> TRUE, err |-> "", store |-> VectorStore_init(arg[1])]}
           \cup (IF arg[1] < 0
                 THEN {[ok |-> FALSE, err |-> "RuntimeError", store |-> NoStore]}
                 ELSE {})

InitFn ==
    /\ vs = NoStore
    /\ disk = [p \in Locs |-> NoFiles]
    /\ ev = NoEv
    /\ cache = <<>>
    /\ pc = <<>>
    /\ loc = <<>>

\* one more chunk in the context list
Retrieve ==
    /\ Len(loc) < MaxChunks
    /\ \E c \in TokChunks : loc' = Append(loc, c)
    /\ ev' = NoEv
    /\ UNCHANGED <<vs, disk, cache, pc>>

\* truncate_chunks_by_tokens(chunks, max_tokens) on the context list
Truncate ==
    /\ \E m \in Budgets :
        ev' = [op |-> "truncate", chunks |-> loc, max_tokens |-> m,
               out |-> truncate_chunks_by_tokens(loc, m)]
    /\ loc' = <<>>
    /\ UNCHANGED <<vs, disk, cache, pc>>

\* get_course_notes_path(course_code) and get_course_index_path(course_code)
Paths ==
    /\ \E id \in Ids :
        ev' = [op |-> "paths", id |-> id, notes |-> get_course_notes_path(id),
               index |-> get_course_index_path(id)]
    /\ UNCHANGED <<vs, disk, cache, pc, loc>>

\* VectorStore(dim) or VectorStore()
Construct ==
    /\ \E arg \in {<<>>} \cup {<<d>> : d \in (-1)..MaxDim} :
       \E r \in VectorStore_new(arg) :
        ev' = [op |-> "new", arg |-> arg, ok |-> r.ok, err |-> r.err, store |-> r.store]
    /\ UNCHANGED <<vs, disk, cache, pc, loc>>

\* is_prompt_safe on prompts around the budgets of the models (3596 and
\* 127500 tokens), by characters and by words, for the models of the table
\* and one that is not in it
CheckPrompt ==
    /\ \E prompt \in {Text(w, c) : w \in {1, 2766, 2767}, c \in {14380, 14384, 14388}}
                      \cup {Text(1, c) : c \in {40, 509999, 510000, 510004}},
          model \in {"gpt-4o-mini", "gpt-4o", "gpt-4-turbo", "gpt-3.5-turbo", "other"} :
        \E r \in {is_prompt_safe_info(prompt, model)} :
           ev' = [op |-> "safe", prompt |-> prompt, model |-> model,
                  is_safe |-> r.is_safe, info |-> r.info]
    /\ UNCHANGED <<vs, disk, cache, pc, loc>>

NextFn == Retrieve \/ Truncate \/ Paths \/ Construct \/ CheckPrompt

SpecFn == InitFn /\ [][NextFn]_vars

----------------------------------------------------------------------------
(* SpecChunk: chunk_text(text, chunk_size, overlap) of rag/chunker.py, one  *)
(* window per step. A text is the sequence of its words after text.split(), *)
(* a chunk the sequence of the words joined into it; the words of a text    *)
(* are numbered so that each is told from the others.                       *)

MaxWords == 5
MaxChunkSize == 3

\* the calls tried: short texts under every small chunk_size and overlap,
\* and the 1100-word text under chunk_size 500 and overlap 50
ChunkInputs ==
    {[n |-> n, size |-> k, overlap |-> o] :
        n \in 0..MaxWords, k \in 1..MaxChunkSize, o \in 0..MaxChunkSize}
      \cup {[n |-> 1100, size |-> 500, overlap |-> 50]}

\* an argument check that accepts every overlap
chunk_args_any(size, overlap) == TRUE

\* the step chunk_size - overlap must stay positive
chunk_args_ok(size, overlap) == overlap < size

\* a window start that advances by the whole chunk_size
chunk_step_whole(size, overlap) == size

\* the distance between the starts of two successive windows
chunk_step(size, overlap) == size - overlap

\* the window of at most chunk_size words that starts after `start` words
chunk_window(words, start, size) ==
    SubSeq(words, start + 1, Min(start + size, Len(words)))

\* a loop that goes on for as long as the next start lies inside the text
chunk_last_by_start(words, start, size, overlap) ==
    start + chunk_step(size, overlap) >= Len(words)

\* the window that starts at `start` holds the last word of the text
chunk_last(words, start, size, overlap) == start + size >= Len(words)

InitChunk ==
    /\ vs = NoStore
    /\ disk = [p \in Locs |-> NoFiles]
    /\ ev = NoEv
    /\ cache = <<>>
    /\ pc = "idle"
    /\ loc = [words |-> <<>>, size |-> 1, overlap |-> 0, start |-> 0, chunks |-> <<>>]

\* a call of chunk_text: the caller error, or the loop entered at start 0
ChunkStart ==
    /\ pc \in {"idle", "done", "error"}
    /\ \E in \in ChunkInputs :
        /\ loc' = [words |-> [i \in 1..in.n |-> i], size |-> in.size,
                   overlap |-> in.overlap, start |-> 0, chunks |-> <<>>]
        /\ pc' = IF chunk_args_ok(in.size, in.overlap) THEN "loop" ELSE "error"
    /\ UNCHANGED <<vs, disk, ev, cache>>

\* one turn of the loop: no word left ends it, else the window at start is
\* appended and the start advances unless this window was the last
ChunkStep ==
    /\ pc = "loop"
    /\ IF loc.start >= Len(loc.words)
       THEN pc' = "done" /\ UNCHANGED loc
       ELSE /\ loc' = [loc EXCEPT
                         !.chunks = Append(@, chunk_window(loc.words, loc.start, loc.size)),
                         !.start = @ + chunk_step(loc.size, loc.overlap)]
            /\ pc' = IF chunk_last(loc.words, loc.start, loc.size, loc.overlap)
                     THEN "done" ELSE "loop"
    /\ UNCHANGED <<vs, disk, ev, cache>>

NextChunk == ChunkStart \/ ChunkStep

SpecChunk == InitChunk /\ [][NextChunk]_vars

----------------------------------------------------------------------------
(* Claims about VectorStore in memory, under SpecVS *)

\* the parallel sequences have one length
Consistent(s) == s.index.ntotal = Len(s.texts)

\* the last call was a search whose query had the index's dimension
Searched == ev.op = "search" /\ ev.err # "AssertionError"

\* C1: a search on an index holding n entries returns exactly min(top_k, n)
\* chunks, for every n >= 0 and top_k >= 1; never more than n.
C1_SearchReturnsMin ==
    (Searched /\ Consistent(vs)) =>
        (ev.ok /\ Len(ev.out) = Min(ev.k, vs.index.ntotal))

\* the chunks at the candidate positions that lie inside [0, len(texts))
RECURSIVE InRange(_, _)
InRange(texts, labels) ==
    IF labels = <<>> THEN <<>>
    ELSE IF 0 <= Head(labels) /\ Head(labels) < Len(texts)
         THEN <<texts[Head(labels) + 1]>> \o InRange(texts, Tail(labels))
         ELSE InRange(texts, Tail(labels))

\* C2: every returned chunk comes from a candidate position p with
\* 0 <= p < len(chunks); a candidate outside that range is dropped, adding
\* no chunk and raising no error.
C2_OutOfRangeDropped ==
    Searched => (ev.ok /\ ev.out = InRange(vs.texts, ev.labels))

\* C3: in every reachable state the number of stored vectors equals the
\* number of stored chunks.
C3_ParallelLengths == vs # NoStore => Consistent(vs)

\* C4: add fails whenever any supplied vector has a length other than dim,
\* and whenever the number of vectors differs from the number of chunks.
C4_AddRejects ==
    (ev.op = "add" /\ (ev.baddim \/ ev.nvec # ev.nchunk)) => ~ev.ok

IsPrefix(a, b) == Len(a) <= Len(b) /\ SubSeq(b, 1, Len(a)) = a

\* C5: add is all-or-nothing and append-only: a failed add leaves vectors and
\* chunks as they were; a successful add grows both by the same count and
\* keeps every earlier vector and chunk in place.
C5_AddAllOrNothing ==
    [][ev'.op = "add" =>
        IF ev'.ok
        THEN /\ vs'.index.ntotal - vs.index.ntotal = Len(vs'.texts) - Len(vs.texts)
             /\ IsPrefix(vs.index.xb, vs'.index.xb)
             /\ IsPrefix(vs.texts, vs'.texts)
        ELSE vs' = vs]_vars

----------------------------------------------------------------------------
(* Claims about persistence, under SpecDisk *)

\* the stored vectors, row by row
Rows(index) == [i \in 1..index.ntotal |-> Row(index, i - 1)]

\* C6: round trip: load(p) after X.save(p) yields an index with the same dim,
\* the same chunks in the same order, the same vectors, and the same search
\* results for every probe vector and top_k.
C6_RoundTrip ==
    (ev.op = "save" /\ ev.ok) =>
        LET r == VectorStore_load(disk[ev.p])
        IN /\ r.ok
           /\ r.store.index.d = vs.index.d
           /\ r.store.texts = vs.texts
           /\ Rows(r.store.index) = Rows(vs.index)
           /\ \A q \in Vec, k \in 1..MaxTopK :
                  VectorStore_search(r.store, q, k) = VectorStore_search(vs, q, k)

\* a store with two different chunks, of dimension 2, has just been saved
C6_Witness ==
    /\ ev.op = "save" /\ ev.ok
    /\ vs.index.d = 2 /\ vs.index.ntotal = 2
    /\ Len(vs.texts) = 2 /\ vs.texts[1] # vs.texts[2]

\* C7: save persists the two artifacts as one atomic unit: whenever both
\* exist at a location they were written by one single save call, and load
\* never returns the vectors of one save with the chunks of another.
C7_SaveAtomic ==
    /\ (exists(Files.idx) /\ exists(Files.txt)) => Files.idx.by = Files.txt.by
    /\ \A t \in Thr : loc[t].res = "loaded" => loc[t].ib = loc[t].tb

----------------------------------------------------------------------------
(* Claims about the registry, under SpecReg *)

BothExist(files) == files.idx.st # "absent" /\ files.txt.st # "absent"

\* C8: load fails with NotFound if and only if at least one of the two
\* artifacts is missing at the location; is_indexed(id) is true exactly when
\* both artifacts exist at index_path(id).
C8_NotFoundIffMissing ==
    /\ ev.op = "cmd_load" =>
          ((ev.err = "FileNotFoundError") <=> ~BothExist(disk[ev.p]))
    /\ ev.op = "is_indexed" =>
          (ev.out <=> BothExist(disk[get_course_index_path(ev.id)]))

\* a load met an index file without its texts file and reported NotFound
C8_Witness ==
    /\ ev.op = "cmd_load" /\ ev.err = "FileNotFoundError"
    /\ disk[ev.p].idx.st = "full" /\ disk[ev.p].txt.st = "absent"

\* C9: resolve(id) returns the cached index when one is cached, without
\* reading storage and without changing the cache; when none is cached and
\* the load from index_path(id) succeeds, it caches the loaded index under id
\* and returns that same index, so a following get_cached(id) returns it.
C9_Resolve ==
    [][ev'.op = "resolve" =>
        LET k == upper(ev'.id)
        IN IF cache[k] # NoStore
           THEN ev'.out = cache[k] /\ ~ev'.loaded /\ cache' = cache
           ELSE (ev'.loaded /\ ev'.lerr = "") =>
                  /\ ev'.out = VectorStore_load(disk[get_course_index_path(ev'.id)]).store
                  /\ ev'.out # NoStore
                  /\ get_course_store(cache', ev'.id) = ev'.out
                  /\ \A j \in Keys \ {k} : cache'[j] = cache[j]]_vars

\* resolve("cs") has just loaded the index from disk and cached it under "CS"
C9_Witness ==
    /\ ev.op = "resolve" /\ ev.id = "cs" /\ ev.loaded /\ ev.lerr = ""
    /\ ev.out # NoStore /\ cache["CS"] = ev.out

\* C10 as claimed: resolve returns absent, without an error and with the cache
\* unchanged, when the load fails with NotFound; any other load failure is
\* propagated to the caller and not turned into absent.
C10_OtherFailuresPropagate ==
    [][(ev'.op = "resolve" /\ ev'.loaded /\ ev'.lerr # "") =>
        IF ev'.lerr = "FileNotFoundError"
        THEN ev'.out = NoStore /\ ~ev'.raised /\ cache' = cache
        ELSE ev'.raised]_vars

\* C10 as the code has it: resolve returns absent, without an error and with
\* the cache unchanged, after every failed load, NotFound or any other.
C10_EveryFailureAbsent ==
    [][(ev'.op = "resolve" /\ ev'.loaded /\ ev'.lerr # "") =>
        (ev'.out = NoStore /\ ~ev'.raised /\ cache' = cache)]_vars

\* resolve met a truncated artifact and returned absent
C10_Witness ==
    /\ ev.op = "resolve" /\ ev.loaded
    /\ ev.lerr \in {"RuntimeError", "EOFError"}
    /\ ev.out = NoStore /\ ~ev.raised

----------------------------------------------------------------------------
(* Claims about build_knowledge_base_from_dir, under SpecReg *)

\* C11 as claimed: build_or_load first attempts resolve: when an index is
\* cached for the identifier it returns that cached index, loads, chunks and
\* embeds no document and does not replace the cache entry; the full build
\* runs only when both the cache and the persisted storage miss.
C11_CachedFirst ==
    [][ev'.op = "build" =>
        LET k == upper(ev'.id)
        IN /\ cache[k] # NoStore =>
                (ev'.ok /\ ev'.out = cache[k] /\ ~ev'.read /\ ~ev'.embedded
                   /\ cache'[k] = cache[k])
           /\ ev'.read => (cache[k] = NoStore /\ ~VectorStore_load(disk[ev'.p]).ok)]_vars

\* C11 as the code has it: build_or_load first attempts to load the persisted
\* index, without looking at the cache: when the load succeeds it returns the
\* loaded index and caches it under the identifier, replacing any entry, and
\* loads, chunks and embeds no document and writes no file; the full build
\* runs exactly when the load from persisted storage fails, cached or not.
C11_LoadFirst ==
    [][ev'.op = "build" =>
        LET r == VectorStore_load(disk[ev'.p])
        IN /\ r.ok => /\ ev'.ok /\ ev'.out = r.store
                      /\ ~ev'.read /\ ~ev'.embedded /\ ~ev'.built
                      /\ cache' = [cache EXCEPT ![upper(ev'.id)] = r.store]
                      /\ disk' = disk
           /\ ev'.read <=> ~r.ok]_vars

\* a build for an identifier that had an index cached ran the full build
\* because nothing could be loaded, and replaced the entry
C11_Witness ==
    /\ ev.op = "build" /\ ev.hit /\ ev.built /\ ev.embedded
    /\ cache[upper(ev.id)] = ev.out

\* C12: a build whose documents yield zero chunks fails with EmptyCorpus
\* (ValueError): the failure reaches the caller, the embedding function is
\* not invoked, no index is persisted and the cache is what it was before
\* the call.
C12_EmptyCorpusFails ==
    [][(ev'.op = "build" /\ ev'.read /\ ev'.nchunks = 0) =>
        /\ ~ev'.ok /\ ev'.err = "ValueError" /\ ev'.out = NoStore
        /\ ~ev'.embedded
        /\ disk' = disk
        /\ cache' = cache]_vars

\* a build over notes without chunks has failed while an index loaded
\* earlier stays cached for the identifier
C12_Witness ==
    /\ ev.op = "build" /\ ev.read /\ ev.nchunks = 0 /\ ev.err = "ValueError"
    /\ ev.hit /\ cache[upper(ev.id)] # NoStore

\* C13: when save fails during a build, build_or_load still succeeds: no
\* error reaches the caller, the built index is returned and cached under
\* the identifier, and the lookups that follow for that identifier return it.
C13_SaveFailureNonFatal ==
    [][/\ (ev'.op = "build" /\ ev'.savefail) =>
            /\ ev'.ok /\ ev'.built /\ ev'.out # NoStore
            /\ get_course_store(cache', ev'.id) = ev'.out
       /\ (ev.op = "build" /\ ev.savefail /\ ev'.op \in {"resolve", "get_cached"}
             /\ upper(ev'.id) = upper(ev.id)) =>
            ev'.out = ev.out]_vars

\* a build whose save failed has cached its index although nothing can be
\* loaded from the location
C13_Witness ==
    /\ ev.op = "build" /\ ev.savefail /\ ev.ok
    /\ cache[upper(ev.id)] = ev.out
    /\ ~VectorStore_load(disk[ev.p]).ok

----------------------------------------------------------------------------
(* Claims about answer_question, under SpecQA *)

\* C15: answer_question returns a string on every path and never propagates
\* a fault to its caller, whatever fails: corpus resolution (index-path
\* derivation and loading included), embedding, search, prompt assembly or
\* generation.
C15_AlwaysString ==
    ev.op = "ask" => (~ev.raised /\ ev.msg # <<>>)

\* C16: an absent corpus, a failure of the embedding call and a failure of
\* the generation call return pairwise distinct messages: two queries that
\* fail at two different ones of these points never return the same string.
C16_DistinctMessages ==
    [][(/\ ev.op = "ask" /\ ev'.op = "ask"
        /\ ev.fail \in {"absent", "embed", "generate"}
        /\ ev'.fail \in {"absent", "embed", "generate"}
        /\ ev.fail # ev'.fail) => ev.msg # ev'.msg]_vars

\* C17: when resolution finds the corpus index absent (nothing cached for the
\* identifier and nothing loadable at its index path), the query returns the
\* not-initialized / run-build message and neither the embedding function
\* nor the generator has been invoked.
C17_AbsentBeforeExternalCalls ==
    (/\ ev.op = "ask" /\ ~ev.raised
     /\ cache[upper(ev.id)] = NoStore
     /\ ~VectorStore_load(disk[get_course_index_path(ev.id)]).ok) =>
        /\ ev.msg = MsgNotInitialized(ev.id)
        /\ ~ev.embedded
        /\ ~ev.generated

\* a query for course "cs" met a truncated index and returned the
\* not-initialized message for CS
C17_Witness ==
    /\ ev.op = "ask" /\ ev.id = "cs" /\ ev.msg = MsgNotInitialized("cs")
    /\ disk["cs"].idx.st = "full" /\ disk["cs"].txt.st = "partial"
    /\ ~ev.embedded /\ ~ev.generated

\* the fixed not-found-in-notes message
MsgNotFound ==
    <<"I could not find relevant information in the course materials to answer your question.">>

\* C18: when the search step returns no chunks the query returns the fixed
\* not-found-in-notes message and the generator is never invoked.
C18_EmptySearchNoGeneration ==
    (ev.op = "ask" /\ ev.nfound = 0) => (ev.msg = MsgNotFound /\ ~ev.generated)

\* the category of a failure of the generation call
Category(cls) ==
    CASE cls = "AuthenticationError" -> "authentication"
      [] cls = "RateLimitError" -> "rate-limit"
      [] cls \in {"APIError", "APIConnectionError"} -> "generic API"
      [] OTHER -> "other"

\* C19: a failure of the generation call is classified as authentication,
\* rate-limit, generic API or other, each category has its own user-facing
\* message, and two failures of different categories never return the same
\* message.
C19_FourCategories ==
    [][/\ (ev'.op = "ask" /\ ev'.fail = "generate") =>
            CASE Category(ev'.gcls) = "authentication" -> ev'.msg = MsgAuth
              [] Category(ev'.gcls) = "rate-limit" -> ev'.msg = MsgRateLimit
              [] Category(ev'.gcls) = "generic API" -> ev'.msg = MsgApi
              [] OTHER -> Len(ev'.msg) = 2 /\ ev'.msg[1] = "Error: "
                            /\ ev'.msg[2] \in ExcText
       /\ (/\ ev.op = "ask" /\ ev.fail = "generate"
           /\ ev'.op = "ask" /\ ev'.fail = "generate"
           /\ Category(ev.gcls) # Category(ev'.gcls)) => ev.msg # ev'.msg]_vars

\* the generation call has failed with a rate-limit error, which is also an
\* APIError, and the rate-limit message was returned
C19_Witness ==
    /\ ev.op = "ask" /\ ev.fail = "generate"
    /\ ev.gcls = "RateLimitError" /\ ev.msg = MsgRateLimit

\* C20: every prompt passed to the generator is within the model's budget:
\* estimate_tokens(prompt) <= get_token_limit(model) - RESERVED_TOKENS, for
\* every question and every set of retrieved chunks.
C20_PromptWithinBudget ==
    (ev.op = "ask" /\ ev.generated) =>
        ev.ptok <= get_token_limit("gpt-4o-mini") - RESERVED_TOKENS

----------------------------------------------------------------------------
(* Claims about concurrent builds, under SpecPar *)

\* C14: for any corpus identifier at most one build (load documents, chunk,
\* embed, add, save, cache) is in progress at any time: two requests that
\* are both inside the build never work on the same identifier.
C14_OneBuildPerCorpus ==
    \A t1, t2 \in Workers :
        (t1 # t2 /\ pc[t1] \in BuildSteps /\ pc[t2] \in BuildSteps) =>
            upper(loc[t1].id) # upper(loc[t2].id)

\* C36: whatever the interleaving of builds and loads for a course, a store
\* in the cache is a complete one: it has as many chunks as vectors and holds
\* the whole of a corpus, so no question searches a partial or mismatched
\* index.
C36_CachedIndexComplete ==
    \A k \in Spellings :
        cache[k] # NoStore => (Consistent(cache[k]) /\ cache[k].texts \in Corpus)

----------------------------------------------------------------------------
(* Claims about the stateless functions, under SpecFn *)

\* the sum of estimate_tokens over a list of chunks
RECURSIVE TokensOf(_)
TokensOf(chunks) ==
    IF chunks = <<>> THEN 0
    ELSE estimate_tokens(ChunkText(Head(chunks))) + TokensOf(Tail(chunks))

\* C21: truncate_chunks_by_tokens(chunks, max_tokens) returns the longest
\* prefix of chunks (same order, whole chunks) whose estimated tokens sum to
\* at most max_tokens: the chunk after the prefix, if any, would overflow, so
\* no later chunk is admitted; when the first chunk fits the result starts
\* with it.
C21_LongestPrefix ==
    ev.op = "truncate" =>
        /\ IsPrefix(ev.out, ev.chunks)
        /\ TokensOf(ev.out) <= ev.max_tokens
        /\ Len(ev.out) < Len(ev.chunks) =>
              TokensOf(SubSeq(ev.chunks, 1, Len(ev.out) + 1)) > ev.max_tokens
        /\ (ev.chunks # <<>> /\ TokensOf(<<ev.chunks[1]>>) <= ev.max_tokens) =>
              (ev.out # <<>> /\ ev.out[1] = ev.chunks[1])

\* the chunks of 100, 200 and 300 characters under a budget of 60: the first
\* is kept, the second overflows
C21_Witness ==
    /\ ev.op = "truncate" /\ ev.chunks = <<"a", "b", "c">> /\ ev.max_tokens = 60
    /\ ev.out = <<"a">>

\* C27: notes_path(id) and index_path(id) depend on the identifier only up
\* to letter case: two identifiers that differ only in case get the same
\* notes location and the same index location.
C27_PathsIgnoreCase ==
    [][(ev.op = "paths" /\ ev'.op = "paths" /\ upper(ev.id) = upper(ev'.id)) =>
        (ev'.notes = ev.notes /\ ev'.index = ev.index)]_vars

\* C28: creating a Vector Index with a dim that is zero, negative or missing
\* fails and produces no index.
C28_InvalidDimension ==
    (ev.op = "new" /\ (ev.arg = <<>> \/ ev.arg[1] <= 0)) =>
        (~ev.ok /\ ev.store = NoStore)

----------------------------------------------------------------------------
(* Claims about chunk_text, under SpecChunk *)

\* the last k and the first k words of a chunk
LastWords(c, k) == SubSeq(c, Len(c) - k + 1, Len(c))
FirstWords(c, k) == SubSeq(c, 1, k)

\* C23: for chunk_size > overlap >= 0 any two consecutive chunks that both
\* have at least `overlap` words share them: the last `overlap` words of
\* chunk i are the first `overlap` words of chunk i+1; 1100 words under
\* chunk_size 500 and overlap 50 give at least 3 chunks.
C23_ChunkOverlap ==
    pc = "done" =>
        /\ \A i \in 1..(Len(loc.chunks) - 1) :
              (Len(loc.chunks[i]) >= loc.overlap /\ Len(loc.chunks[i + 1]) >= loc.overlap) =>
                  LastWords(loc.chunks[i], loc.overlap) = FirstWords(loc.chunks[i + 1], loc.overlap)
        /\ (Len(loc.words) = 1100 /\ loc.size = 500 /\ loc.overlap = 50) =>
              Len(loc.chunks) >= 3

\* the 1100-word text has been cut into three chunks of which the second
\* begins with the last 50 words of the first
C23_Witness ==
    /\ pc = "done" /\ Len(loc.words) = 1100 /\ Len(loc.chunks) = 3
    /\ FirstWords(loc.chunks[2], 50) = LastWords(loc.chunks[1], 50)
    /\ loc.chunks[2][1] = 451

\* C24: chunk_text always terminates: a call with overlap >= chunk_size
\* signals a caller error and never enters the loop; in every other call
\* each turn of the loop strictly increases the window start, and the loop
\* goes on only while the start lies inside the text.
C24_ChunkTerminates ==
    [][/\ (pc # "loop" /\ pc' # pc /\ loc'.overlap >= loc'.size) => pc' = "error"
       /\ (pc = "loop" /\ pc' = "loop") =>
            (loc'.start > loc.start /\ loc.start < Len(loc.words)
               /\ loc'.start < Len(loc.words))
       /\ pc = "loop" => loc.overlap < loc.size]_vars

\* a call with overlap equal to chunk_size has been refused
C24_Witness ==
    pc = "error" /\ loc.overlap = loc.size /\ loc.chunks = <<>> /\ loc.words # <<>>

----------------------------------------------------------------------------
(* Claims about the cache operations, under SpecCache *)

\* C26: the cache operations ignore the letter case of the code: a
\* get_course_store that follows set_course_store(id, x) with a code equal
\* to id up to case returns x, clear_course_cache(id') leaves no entry for
\* any spelling of id', and every key of the cache is in upper case.
C26_CacheIgnoresCase ==
    [][/\ (ev.op = "set_cached" /\ ev'.op = "get_cached" /\ upper(ev'.id) = upper(ev.id))
            => ev'.out = ev.store
       /\ (ev'.op = "evict" /\ ev'.id # "")
            => \A id \in Ids : upper(id) = upper(ev'.id) => get_course_store(cache', id) = NoStore
       /\ \A k \in Spellings : cache'[k] # NoStore => k = upper(k)]_vars

\* a store cached for CS has been returned to a caller asking for cs
C26_Witness ==
    /\ ev.op = "get_cached" /\ ev.id = "cs"
    /\ ev.out # NoStore /\ cache["CS"] = ev.out /\ cache["cs"] = NoStore

----------------------------------------------------------------------------
(* Claims about builds followed by questions, under SpecE2E *)

\* C22: a question asked for a course right after a successful
\* build_knowledge_base_from_dir for that course, whatever the index path of
\* the build, reaches the generation call when the embedder and the
\* generator work, and the string returned is the generator's output.
C22_EndToEnd ==
    [][(/\ ev.op = "build" /\ ev.ok
        /\ ev'.op = "ask" /\ upper(ev'.id) = upper(ev.id))
          => (ev'.generated /\ ev'.fail = "none" /\ ev'.msg = <<"answer">>)]_vars

\* a question has been answered from the cache for a course whose own index
\* path holds no file
C22_Witness ==
    /\ ev.op = "ask" /\ ev.res = "cached" /\ ev.generated /\ ev.msg = <<"answer">>
    /\ disk[get_course_index_path(ev.id)] = NoFiles

----------------------------------------------------------------------------
(* Claims about reloads, under SpecReload *)

\* the store the build makes of the chunks of a notes folder
BuiltFrom(chunks) ==
    VectorStore_add(VectorStore_init(EmbDim), embed_texts(chunks), chunks).store

\* C30: after POST /courses/{id}/reload returns status ok the cached index
\* of the course is the one built from the notes folder as it was at the
\* call, whether or not a persisted index existed.
C30_ReloadRebuilds ==
    [][(ev'.op = "reload" /\ ev'.status = "ok")
          => (ev'.notes # <<>> /\ cache'[upper(ev'.id)] = BuiltFrom(ev'.notes))]_vars

----------------------------------------------------------------------------
(* Claims about the progress of a question, under SpecLive *)

\* C29: every call of answer_question that waits for the embedding or for
\* the generation eventually ends, answered or failed: neither external
\* call blocks it forever.
C29_QueryTerminates ==
    (pc \in {"embedding", "generating"}) ~> (pc \in {"answered", "failed"})

----------------------------------------------------------------------------
(* More claims about VectorStore.search, under SpecVS *)

\* the stored position whose chunk a kept candidate reads: a negative
\* candidate counts from the end of the list
ReadPos(texts, label) == IF label < 0 THEN Len(texts) + label ELSE label

\* C31: the chunks a search returns are in ascending order of the squared
\* Euclidean distance of their vectors to the query, and no stored vector
\* strictly nearer than a returned one is left out. Stated for a store with
\* as many chunks as vectors, where every candidate gives one chunk.
C31_NearestFirst ==
    (Searched /\ ev.ok /\ Consistent(vs) /\ Len(ev.out) = Len(ev.labels)) =>
        LET pos == [i \in 1..Len(ev.out) |-> ReadPos(vs.texts, ev.labels[i])]
        IN /\ \A i, j \in 1..Len(ev.out) :
                i < j => Dist(vs.index, pos[i], ev.q) <= Dist(vs.index, pos[j], ev.q)
           /\ \A x \in 0..(vs.index.ntotal - 1) :
                (\A i \in 1..Len(ev.out) : pos[i] # x) =>
                    \A i \in 1..Len(ev.out) :
                        Dist(vs.index, pos[i], ev.q) <= Dist(vs.index, x, ev.q)

----------------------------------------------------------------------------
(* More claims about the token functions, under SpecFn *)

\* C32: is_prompt_safe reports safe exactly when estimate_tokens(prompt) is
\* at most the model's limit less 500, the limit being the table entry of
\* the model or 4096 for a model that is not in the table; the dict returned
\* carries that estimate, limit and reservation, and available = limit -
\* reservation.
C32_SafeIffWithinBudget ==
    ev.op = "safe" =>
        LET limit == CASE ev.model \in {"gpt-4o-mini", "gpt-4o", "gpt-4-turbo"} -> 128000
                       [] ev.model = "gpt-3.5-turbo" -> 4096
                       [] OTHER -> 4096
        IN /\ ev.is_safe = (estimate_tokens(ev.prompt) <= limit - 500)
           /\ ev.info.estimated_tokens = estimate_tokens(ev.prompt)
           /\ ev.info.token_limit = limit
           /\ ev.info.reserved_tokens = 500
           /\ ev.info.available_tokens = limit - 500
           /\ ev.info.is_safe = ev.is_safe

\* a prompt of exactly 3596 estimated tokens has been found safe for a model
\* that is not in the table
C32_Witness ==
    /\ ev.op = "safe" /\ ev.model = "other"
    /\ ev.info.estimated_tokens = 3596 /\ ev.is_safe

----------------------------------------------------------------------------
(* Claims about scripts/manage_index.py, under SpecCli *)

\* C33: manage_index.py exits with 0 on success, with 1 when what was asked
\* for is not found (the notes folder of a build, the persisted index of a
\* load) and with 2 when the build or the load fails for another reason; a
\* build that fails never exits with 0.
C33_ExitCodes ==
    /\ ev.op = "cmd_build" =>
          /\ ev.exit = 0 <=> ev.err = ""
          /\ ev.exit = 1 <=> ev.err = "notes not found"
          /\ ev.exit = 2 <=> ev.err \notin {"", "notes not found"}
    /\ ev.op = "cmd_load" =>
          /\ ev.exit = 0 <=> ev.err = ""
          /\ ev.exit = 1 <=> ev.err = "FileNotFoundError"
          /\ ev.exit = 2 <=> ev.err \notin {"", "FileNotFoundError"}

----------------------------------------------------------------------------
(* Claims about the cache entries of other courses, under SpecFrame *)

\* C34: set_course_store, load_course_store, the build and
\* clear_course_cache called for one course leave the cache entry of every
\* other course as it was; clear_course_cache without a code empties the
\* cache; clearing a course that is not cached changes nothing.
C34_SharedNothing ==
    [][/\ (ev'.op \in {"install", "resolve", "build"} \/ (ev'.op = "evict" /\ ev'.id # ""))
            => \A k \in Spellings \ {upper(ev'.id)} : cache'[k] = cache[k]
       /\ (ev'.op = "evict" /\ ev'.id = "")
            => \A k \in Spellings : cache'[k] = NoStore
       /\ (ev'.op = "evict" /\ ev'.id # "" /\ cache[upper(ev'.id)] = NoStore)
            => cache' = cache]_vars

\* the entry of CS has been cleared while MA stays cached
C34_Witness ==
    /\ ev.op = "evict" /\ ev.id = "cs"
    /\ cache["CS"] = NoStore /\ cache["MA"] # NoStore

----------------------------------------------------------------------------
(* Claims about what a question changes, under SpecLive *)

\* C35: no step of answer_question (resolving the store, the embedding with
\* the search, the generation) changes an index: the files stay as they
\* are, the store the call works on stays as it is, and the only change to
\* the cache is the entry of the asked course going from absent to the store
\* just loaded from its files. A call abandoned after any step therefore
\* leaves every index as it found it.
C35_QueryMutatesNothing ==
    [][(pc' # pc \/ loc' # loc) =>
          /\ disk' = disk
          /\ \A k \in Spellings :
                cache'[k] # cache[k] =>
                   /\ k = upper(loc'.id) /\ cache[k] = NoStore /\ pc \notin {"embedding", "generating"}
                   /\ cache'[k] = VectorStore_load(disk[get_course_index_path(loc'.id)]).store
          /\ pc \in {"embedding", "generating"} => loc'.store = loc.store]_vars

\* a question has been answered over a store that its call loaded from the
\* files into the cache
C35_Witness ==
    /\ pc = "answered" /\ loc.store # NoStore
    /\ cache[upper(loc.id)] = loc.store
    /\ VectorStore_load(disk[get_course_index_path(loc.id)]).ok
    /\ VectorStore_load(disk[get_course_index_path(loc.id)]).store = loc.store

----------------------------------------------------------------------------
(* Claims about recovery from the files, under SpecReg *)

\* the cache of a process that has just started
EmptyCache == [k \in Spellings |-> NoStore]

\* what a fresh process, and this process after clear_course_cache(id), get
\* from load_course_store(id) over the files d: the store `built`, and
\* is_course_indexed(id) is true
Recovers(c, d, id, built) ==
    /\ load_course_store(EmptyCache, d, id).out = built
    /\ load_course_store(clear_course_cache(c, id), d, id).out = built
    /\ is_course_indexed(d, id)

\* C37 as stated: after a build that built and saved a store, whatever
\* index_path it was given, load_course_store from an empty cache (or after
\* clear_course_cache) returns a store equal to the one built, and
\* is_course_indexed is true.
C37_RecoveryAnyPath ==
    [][(ev'.op = "build" /\ ev'.built /\ ~ev'.savefail)
          => Recovers(cache', disk', ev'.id, ev'.out)]_vars

\* C37 as the code has it: the same, for a build whose index_path is the
\* course's own path get_course_index_path(id).
C37_RecoveryAtCoursePath ==
    [][(ev'.op = "build" /\ ev'.built /\ ~ev'.savefail
           /\ ev'.p = get_course_index_path(ev'.id))
          => Recovers(cache', disk', ev'.id, ev'.out)]_vars

\* a two-chunk store has just been built for CS and saved at the path of cs
C37_Witness ==
    /\ ev.op = "build" /\ ev.built /\ ~ev.savefail
    /\ ev.id = "CS" /\ ev.p = "cs" /\ Len(ev.out.texts) = 2
    /\ VectorStore_load(disk["cs"]).ok

----------------------------------------------------------------------------
(* Claims about repeated truncation, under SpecFn *)

\* C38: truncate_chunks_by_tokens is idempotent and monotone in the budget:
\* truncating its result again with the same budget changes nothing, and for
\* every budget b1 <= b the result for b1 is a prefix of the result for b
\* and equals the truncation to b1 of the result for b.
C38_TruncateIdempotentMonotone ==
    ev.op = "truncate" =>
        /\ truncate_chunks_by_tokens(ev.out, ev.max_tokens) = ev.out
        /\ \A b1 \in Budgets :
              b1 <= ev.max_tokens =>
                 /\ IsPrefix(truncate_chunks_by_tokens(ev.chunks, b1), ev.out)
                 /\ truncate_chunks_by_tokens(ev.out, b1)
                       = truncate_chunks_by_tokens(ev.chunks, b1)

\* three chunks of 25, 50 and 75 tokens have been cut to the first two by a
\* budget of 75, which a budget of 60 cuts further to the first
C38_Witness ==
    /\ ev.op = "truncate" /\ ev.chunks = <<"a", "b", "c">> /\ ev.max_tokens = 75
    /\ ev.out = <<"a", "b">>
    /\ truncate_chunks_by_tokens(ev.out, 60) = <<"a">>

====
